---- MODULE Spec2Model ----
(***************************************************************************)
(* A model of PDFnPPTX2docxV2.py: the dispatcher convert_to_docx, the PPTX *)
(* pipeline (pptx_to_docx, process_shape, extract_text_runs,               *)
(* add_text_to_docx) and the PDF pipeline (pdf_to_docx).                   *)
(*                                                                         *)
(* Representation.  A path or a shape name is a sequence of one-character  *)
(* strings, so that splitext, lower and the substring tests are computed.  *)
(* A text (of a run, a paragraph, a heading) is a sequence of string       *)
(* fragments whose concatenation is the text.  An image file name is a     *)
(* string built with ToString, as the f-strings build it.  None is "None"  *)
(* for a tri-state flag or a font name, -1 for a size, <<>> for a colour.  *)
(***************************************************************************)
EXTENDS Integers, Sequences, FiniteSets, TLC

VARIABLES pc, input_path, output_path, source, doc, image_count, i, j,
          files, disk, dirs, mkdirs, ndocs, saved, exit_code, arg, pre

vars == <<pc, input_path, output_path, source, doc, image_count, i, j,
          files, disk, dirs, mkdirs, ndocs, saved, exit_code, arg, pre>>

-----------------------------------------------------------------------------
(* Bounds of the model *)

MaxSlides == 2
MaxShapes == 2
MaxChildren == 2
MaxParas == 2
MaxRuns == 2
MaxPages == 2
MaxImages == 2
MaxDisk == 2

(* Constants of the program *)

GROUP == 6
PICTURE == 13
CHART == 3
PxPerInch == 96
MaxWidthInches == 5
DefaultWidthInches == 3
PdfWidthInches == 4

-----------------------------------------------------------------------------
(* Sequences *)

Min(a, b) == IF a <= b THEN a ELSE b

SeqsUpTo(S, n) == UNION {[1..k -> S] : k \in 0..n}

IsPrefix(s, t) == Len(s) <= Len(t) /\ SubSeq(t, 1, Len(s)) = s

RECURSIVE Flatten(_)
Flatten(ss) == IF ss = <<>> THEN <<>> ELSE Head(ss) \o Flatten(Tail(ss))

Reverse(s) == [k \in 1..Len(s) |-> s[Len(s) + 1 - k]]

(* Python's  needle in hay  on strings *)
Contains(hay, needle) ==
    \E k \in 0..(Len(hay) - Len(needle)) :
        SubSeq(hay, k + 1, k + Len(needle)) = needle

-----------------------------------------------------------------------------
(* The output document (python-docx): a sequence of blocks, each a record  *)
(* of the same shape; width is in 1/96 inch, so Inches(w / 96) is w.       *)

None == "None"

PlainRun(text) ==
    [text |-> text, bold |-> None, italic |-> None, underline |-> None,
     size |-> -1, name |-> None, color |-> <<>>]

Blk == [kind |-> "", style |-> "", runs |-> <<>>, level |-> 0,
        path |-> "", width |-> 0, rows |-> 0, cols |-> 0, cells |-> <<>>]

Heading(text) ==
    [Blk EXCEPT !.kind = "heading", !.runs = <<PlainRun(text)>>, !.level = 1]

(* doc.add_paragraph(text): a run is added only when text is not empty *)
Paragraph(text) ==
    [Blk EXCEPT !.kind = "paragraph",
                !.runs = IF text = <<>> THEN <<>> ELSE <<PlainRun(text)>>]

Picture(path, width) ==
    [Blk EXCEPT !.kind = "picture", !.path = path, !.width = width]

Table(rows, cols, cells) ==
    [Blk EXCEPT !.kind = "table", !.style = "Table Grid", !.rows = rows,
                !.cols = cols, !.cells = cells]

PageBreak == [Blk EXCEPT !.kind = "page_break"]

add_page_break_dropped(d) == d

add_page_break(d) == Append(d, PageBreak)

ChartPlaceholder == Paragraph(<<"[Chart Placeholder: Cannot render chart image]">>)

SmartArtPlaceholder == Paragraph(<<"[SmartArt Placeholder]">>)

-----------------------------------------------------------------------------
(* extract_text_runs *)

(* the bullet glyph U+2022, one character of a text *)
Bullet == "U+2022"

IsSpace(c) == c \in {" ", "\t", "\n"}

RECURSIVE LStrip(_)
LStrip(t) == IF t # <<>> /\ IsSpace(Head(t)) THEN LStrip(Tail(t)) ELSE t

Strip(t) == Reverse(LStrip(Reverse(LStrip(t))))

StartsWith(t, c) == t # <<>> /\ Head(t) = c

(* para.text: the texts of the paragraph's runs, concatenated *)
ParaText(para) == Flatten([r \in 1..Len(para.runs) |-> para.runs[r].text])

(* RGBColor(rgb[0], rgb[1], rgb[2]) inside try/except: a falsy rgb, an     *)
(* IndexError or a ValueError all leave color None                         *)
ExtractColor(rgb) ==
    IF rgb = <<>> THEN <<>>
    ELSE IF Len(rgb) < 3 THEN <<>>
    ELSE IF \E k \in 1..3 : rgb[k] < 0 \/ rgb[k] > 255 THEN <<>>
    ELSE <<rgb[1], rgb[2], rgb[3]>>

ExtractRun(run) ==
    [text |-> run.text, bold |-> run.bold, italic |-> run.italic,
     underline |-> run.underline,
     size |-> IF run.size > 0 THEN run.size ELSE -1,
     name |-> run.name, color |-> ExtractColor(run.rgb)]

extract_text_runs(shape) ==
    IF ~shape.has_text_frame THEN <<>>
    ELSE [p \in 1..Len(shape.paragraphs) |->
            LET para == shape.paragraphs[p] IN
            [is_bullet |-> para.level > 0
                           \/ StartsWith(Strip(ParaText(para)), Bullet),
             runs |-> [r \in 1..Len(para.runs) |-> ExtractRun(para.runs[r])]]]

-----------------------------------------------------------------------------
(* add_text_to_docx *)

DocRun(run) ==
    [text |-> run.text, bold |-> run.bold, italic |-> run.italic,
     underline |-> run.underline,
     size |-> IF run.size > 0 THEN run.size ELSE -1,
     name |-> IF run.name \notin {None, ""} THEN run.name ELSE None,
     color |-> run.color]

DocPara(para) ==
    [Blk EXCEPT !.kind = "paragraph",
                !.style = IF para.is_bullet THEN "List Bullet" ELSE "",
                !.runs = [r \in 1..Len(para.runs) |-> DocRun(para.runs[r])]]

add_text_to_docx_skip_empty(d, text_content) ==
    d \o SelectSeq([p \in 1..Len(text_content) |-> DocPara(text_content[p])],
                   LAMBDA b : b.runs # <<>>)

add_text_to_docx(d, text_content) ==
    d \o [p \in 1..Len(text_content) |-> DocPara(text_content[p])]

-----------------------------------------------------------------------------
(* process_shape.  env is what the call can change besides its result:     *)
(* the document, the log of the image files written, and the room left on  *)
(* the disk (a write raises when there is none).  The result is env, the   *)
(* returned image_count, and whether the call raised instead of returning. *)

Return(env, count) ==
    [doc |-> env.doc, files |-> env.files, disk |-> env.disk,
     image_count |-> count, raised |-> FALSE]

Raise(env, count) ==
    [doc |-> env.doc, files |-> env.files, disk |-> env.disk,
     image_count |-> count, raised |-> TRUE]

EnvOf(r) == [doc |-> r.doc, files |-> r.files, disk |-> r.disk]

IsInvisible_never(shape) == FALSE

(* hasattr(shape, "visible") and not shape.visible *)
IsInvisible(shape) == shape.visible # "absent" /\ shape.visible = "false"

(* shape.shape_type == 6 and hasattr(shape, "shapes") *)
IsGroup(shape) == shape.shape_type = GROUP /\ shape.has_shapes

SubshapeOrder_reversed(shapes) == Reverse(shapes)

(* for subshape in shape.shapes *)
SubshapeOrder(shapes) == shapes

(* shape.shape_type == 13 and hasattr(shape, "image") *)
IsPicture(shape) == shape.shape_type = PICTURE /\ shape.has_image

IsChart_exact_name(shape) ==
    shape.shape_type = CHART /\ shape.name = <<"C", "h", "a", "r", "t">>

(* shape.shape_type == 3 and "Chart" in str(shape.name) *)
IsChart(shape) ==
    shape.shape_type = CHART /\ Contains(shape.name, <<"C", "h", "a", "r", "t">>)

(* "SmartArt" in str(shape.name) *)
IsSmartArt(shape) ==
    Contains(shape.name, <<"S", "m", "a", "r", "t", "A", "r", "t">>)

(* f"{image_dir}/image_{slide_num}_{image_count}.{image_format}" *)
PptxImageName(image_dir, slide_num, count, ext) ==
    image_dir \o "/image_" \o ToString(slide_num) \o "_"
              \o ToString(count) \o "." \o ext

(* min(5, img.size[0] / 96), or 3 when the image cannot be opened (px < 0) *)
WidthOf(image) ==
    IF image.px >= 0 THEN Min(MaxWidthInches * PxPerInch, image.px)
    ELSE DefaultWidthInches * PxPerInch

NextImageCount_same(count) == count

(* image_count += 1 *)
NextImageCount(count) == count + 1

(* lines 74-85: open(filename, "wb") raises when the disk is full; the     *)
(* file is written; doc.add_picture raises on an image it does not         *)
(* recognise, after the file was written                                   *)
ExtractPicture(env, image, slide_num, count, image_dir) ==
    LET filename == PptxImageName(image_dir, slide_num, count, image.ext)
        written == [env EXCEPT
                      !.files = Append(@, [path |-> filename,
                                           key |-> <<slide_num, count>>]),
                      !.disk = @ - 1]
    IN  IF env.disk = 0 THEN Raise(env, count)
        ELSE IF ~image.embeddable THEN Raise(written, count)
        ELSE Return([written EXCEPT
                       !.doc = Append(@, Picture(filename, WidthOf(image)))],
                    NextImageCount(count))

(* lines 88-93 *)
CopyTable(d, table) ==
    Append(d, Table(table.rows, table.cols,
                    [r \in 1..table.rows |->
                        [c \in 1..table.cols |-> table.cells[r][c]]]))

RECURSIVE process_shape(_, _, _, _, _), process_shapes(_, _, _, _, _)

process_shape(env, shape, slide_num, count, image_dir) ==
    IF IsInvisible(shape) THEN Return(env, count)
    ELSE IF IsGroup(shape)
    THEN process_shapes(env, SubshapeOrder(shape.shapes), slide_num,
                        count, image_dir)
    ELSE IF shape.has_text_frame
    THEN Return([env EXCEPT
                   !.doc = add_text_to_docx(@, extract_text_runs(shape))],
                count)
    ELSE IF IsPicture(shape)
    THEN ExtractPicture(env, shape.image, slide_num, count, image_dir)
    ELSE IF shape.has_table
    THEN Return([env EXCEPT !.doc = CopyTable(@, shape.table)], count)
    ELSE IF IsChart(shape)
    THEN Return([env EXCEPT !.doc = Append(@, ChartPlaceholder)], count)
    ELSE IF IsSmartArt(shape)
    THEN LET placed == Append(env.doc, SmartArtPlaceholder) IN
         Return([env EXCEPT
                   !.doc = IF shape.has_text_frame
                           THEN add_text_to_docx(placed, extract_text_runs(shape))
                           ELSE placed],
                count)
    ELSE Return(env, count)

(* the loops  for s in shapes: image_count = process_shape(doc, s, ...)  of *)
(* lines 65-66 and 117-118; an exception ends the loop                      *)
process_shapes(env, shapes, slide_num, count, image_dir) ==
    IF shapes = <<>> THEN Return(env, count)
    ELSE LET r == process_shape(env, Head(shapes), slide_num, count,
                                image_dir)
         IN  IF r.raised THEN r
             ELSE process_shapes(EnvOf(r), Tail(shapes), slide_num,
                                 r.image_count, image_dir)

-----------------------------------------------------------------------------
(* The sources read: shapes (python-pptx) and pages (PyMuPDF) *)

NoImage == [ext |-> "", px |-> -1, embeddable |-> FALSE]

NoTable == [rows |-> 0, cols |-> 0, cells |-> <<>>]

Box == [visible |-> "absent", shape_type |-> 1, name |-> <<"B", "o", "x">>,
        has_shapes |-> FALSE, shapes |-> <<>>,
        has_text_frame |-> FALSE, paragraphs |-> <<>>,
        has_image |-> FALSE, image |-> NoImage,
        has_table |-> FALSE, table |-> NoTable]

RunA == [text |-> <<"a">>, bold |-> "True", italic |-> "False",
         underline |-> None, size |-> 14, name |-> "Arial",
         rgb |-> <<255, 0, 0>>]

RunB == [text |-> <<" ", Bullet>>, bold |-> None, italic |-> None,
         underline |-> "True", size |-> 0, name |-> "", rgb |-> <<255>>]

Runs == {RunA, RunB}

Paras == [level : {0, 1}, runs : SeqsUpTo(Runs, MaxRuns)]

TextBodies == SeqsUpTo(Paras, MaxParas)

OnePara == <<[level |-> 0, runs |-> <<RunA>>]>>

Png == [ext |-> "png", px |-> 200, embeddable |-> TRUE]

Images == {Png,
           [ext |-> "jpg", px |-> 960, embeddable |-> TRUE],
           [ext |-> "png", px |-> -1, embeddable |-> TRUE],
           [ext |-> "wmf", px |-> -1, embeddable |-> FALSE]}

Grid(rows, cols) ==
    [rows |-> rows, cols |-> cols,
     cells |-> [r \in 1..rows |-> [c \in 1..cols |-> <<ToString(r), ToString(c)>>]]]

ChartName == <<"C", "h", "a", "r", "t", " ", "1">>

SmartArtName == <<"S", "m", "a", "r", "t", "A", "r", "t">>

Names == {Box.name, ChartName, SmartArtName}

TextL == [Box EXCEPT !.has_text_frame = TRUE, !.paragraphs = OnePara]

PicL == [Box EXCEPT !.shape_type = PICTURE, !.has_image = TRUE, !.image = Png]

BadPicL == [PicL EXCEPT !.image = [ext |-> "wmf", px |-> -1, embeddable |-> FALSE]]

TableL == [Box EXCEPT !.has_table = TRUE, !.table = Grid(2, 3)]

ChartL == [Box EXCEPT !.shape_type = CHART, !.name = ChartName]

SmartArtL == [Box EXCEPT !.name = SmartArtName]

Group(visible, shapes) ==
    [Box EXCEPT !.visible = visible, !.shape_type = GROUP,
                !.has_shapes = TRUE, !.shapes = shapes]

(* every combination of the attributes process_shape tests, on a leaf *)
AttrLeaves ==
    {[Box EXCEPT !.visible = v, !.shape_type = t, !.name = n,
                 !.has_text_frame = tf, !.paragraphs = IF tf THEN OnePara ELSE <<>>,
                 !.has_image = im, !.image = IF im THEN Png ELSE NoImage,
                 !.has_table = tb, !.table = IF tb THEN Grid(1, 2) ELSE NoTable] :
        v \in {"absent", "true", "false"}, t \in {1, CHART, GROUP, PICTURE},
        n \in Names, tf \in BOOLEAN, im \in BOOLEAN, tb \in BOOLEAN}

TextLeaves ==
    {[Box EXCEPT !.has_text_frame = TRUE, !.paragraphs = b] : b \in TextBodies}

PictureLeaves == {[PicL EXCEPT !.image = im] : im \in Images}

GroupLeaves == {TextL, PicL, BadPicL}

NestedGroups ==
    {Group(v, ss) : v \in {"absent", "false"},
                    ss \in SeqsUpTo({TextL, PicL}, MaxChildren - 1)}

Groups ==
    {Group(v, ss) : v \in {"absent", "true", "false"},
                    ss \in SeqsUpTo(GroupLeaves \cup NestedGroups, MaxChildren)}

(* the shapes the presentations of the pipeline are made of *)
PipeShapes ==
    {TextL, PicL, BadPicL, TableL, ChartL, SmartArtL, Box,
     Group("absent", <<PicL, Group("false", <<PicL>>), Group("true", <<TextL, PicL>>)>>)}

RECURSIVE Sum(_)
Sum(c) == IF c = <<>> THEN 0 ELSE Head(c) + Sum(Tail(c))

(* shapes cut into slides of c[1], c[2], ... shapes *)
Cut(flat, c) ==
    [k \in 1..Len(c) |->
        SubSeq(flat, Sum(SubSeq(c, 1, k - 1)) + 1, Sum(SubSeq(c, 1, k)))]

(* up to MaxSlides slides holding up to MaxShapes shapes between them *)
Presentations ==
    UNION {{Cut(flat, c) : flat \in [1..Sum(c) -> PipeShapes]} :
             c \in {d \in SeqsUpTo(0..MaxShapes, MaxSlides) : Sum(d) <= MaxShapes}}

PdfTexts == {<<>>, <<"H", "\n", "W">>, <<"H", "\n">>}

(* page.get_images(full=True): pix.n is 4 or 5 components, in turn *)
ImageLists ==
    {[k \in 1..n |-> [xref |-> k, n |-> IF k % 2 = 1 THEN 4 ELSE 5]] :
        n \in 0..MaxImages}

PdfPages == [text : PdfTexts, images : ImageLists]

PdfDocuments == SeqsUpTo(PdfPages, MaxPages)

-----------------------------------------------------------------------------
(* convert_to_docx and the main block: paths *)

UpperCase ==
    <<"A", "B", "C", "D", "E", "F", "G", "H", "I", "J", "K", "L", "M",
      "N", "O", "P", "Q", "R", "S", "T", "U", "V", "W", "X", "Y", "Z">>

LowerCase ==
    <<"a", "b", "c", "d", "e", "f", "g", "h", "i", "j", "k", "l", "m",
      "n", "o", "p", "q", "r", "s", "t", "u", "v", "w", "x", "y", "z">>

Lower_unchanged(path) == path

(* str.lower *)
Lower(path) ==
    [k \in 1..Len(path) |->
        IF \E u \in 1..26 : UpperCase[u] = path[k]
        THEN LowerCase[CHOOSE u \in 1..26 : UpperCase[u] = path[k]]
        ELSE path[k]]

(* str.rfind(c) + 1: the last position of c, 0 when there is none *)
RFind(path, c) ==
    IF \E k \in 1..Len(path) : path[k] = c
    THEN CHOOSE k \in 1..Len(path) :
            path[k] = c /\ \A m \in (k + 1)..Len(path) : path[m] # c
    ELSE 0

(* os.path.splitext: the extension starts at the last dot of the last      *)
(* component, unless only dots precede it there                            *)
SplitExt(path) ==
    LET sep == RFind(path, "/")
        dot == RFind(path, ".")
    IN  IF dot > sep /\ \E k \in (sep + 1)..(dot - 1) : path[k] # "."
        THEN [root |-> SubSeq(path, 1, dot - 1),
              ext |-> SubSeq(path, dot, Len(path))]
        ELSE [root |-> path, ext |-> <<>>]

DotPptx == <<".", "p", "p", "t", "x">>

DotPdf == <<".", "p", "d", "f">>

(* os.path.splitext(input_path)[0] + ".docx" *)
DefaultOutput(path) == SplitExt(path).root \o <<".", "d", "o", "c", "x">>

InputPaths ==
    {<<"a">> \o DotPptx,
     <<"a", ".", "P", "P", "T", "X">>,
     <<"a">> \o DotPdf,
     <<"a", ".", "P", "d", "f">>,
     <<"a", ".", "t", "x", "t">>,
     <<"a">>,
     DotPptx,
     <<"a">> \o DotPdf \o <<"/", "b">>,
     <<"a">> \o DotPptx \o <<".", "b", "a", "k">>}

(* str.split("\n") *)
RECURSIVE Split(_)
Split(text) ==
    IF \E k \in 1..Len(text) : text[k] = "\n"
    THEN LET k == CHOOSE m \in 1..Len(text) :
                    text[m] = "\n" /\ \A q \in 1..(m - 1) : text[q] # "\n"
         IN  <<SubSeq(text, 1, k - 1)>> \o Split(SubSeq(text, k + 1, Len(text)))
    ELSE <<text>>

(* f"{image_dir}/page_{i + 1}_img_{j + 1}.png" *)
PdfImageName(image_dir, page, index) ==
    image_dir \o "/page_" \o ToString(page) \o "_img_" \o ToString(index) \o ".png"

-----------------------------------------------------------------------------
(* The state before convert_to_docx is called.  pre and arg record the     *)
(* arguments of the latest call of process_shape.                          *)

NoPre == [doc |-> <<>>, image_count |-> 0, files |-> <<>>, disk |-> 0,
          slide_num |-> 0]

PptxDir == "pptx_images"

PdfDir == "pdf_images"

(* what the file named path holds: any source under the plain lower-case   *)
(* names, a short one under the others                                     *)
SourcesFor(path) ==
    LET ext == Lower(SplitExt(path).ext) IN
    IF path = <<"a">> \o DotPptx THEN Presentations
    ELSE IF ext = DotPptx THEN {p \in Presentations : Len(Flatten(p)) <= 1}
    ELSE IF path = <<"a">> \o DotPdf THEN PdfDocuments
    ELSE IF ext = DotPdf THEN {p \in PdfDocuments : Len(p) <= 1}
    ELSE {<<>>}

Init ==
    /\ pc = "convert"
    /\ input_path \in InputPaths
    /\ output_path = DefaultOutput(input_path)
    /\ source \in SourcesFor(input_path)
    /\ doc = <<>>
    /\ image_count = 0
    /\ i = 0
    /\ j = 0
    /\ files = <<>>
    /\ disk \in 0..MaxDisk
    /\ dirs \in {{}, {PptxDir, PdfDir}}
    /\ mkdirs = <<>>
    /\ ndocs = 0
    /\ saved = <<>>
    /\ exit_code = -1
    /\ arg = Box
    /\ pre = NoPre

(* convert_to_docx, lines 157-164 *)
Dispatch ==
    /\ pc = "convert"
    /\ LET ext == Lower(SplitExt(input_path).ext) IN
       /\ pc' = IF ext = DotPptx THEN "pptx_open"
                ELSE IF ext = DotPdf THEN "pdf_open"
                ELSE "exit"
       /\ exit_code' = IF ext \in {DotPptx, DotPdf} THEN exit_code ELSE 1
    /\ UNCHANGED <<input_path, output_path, source, doc, image_count, i, j,
                   files, disk, dirs, mkdirs, ndocs, saved, arg, pre>>

(* if not os.path.exists(image_dir): os.makedirs(image_dir) *)
MakeDir(image_dir) ==
    /\ dirs' = dirs \cup {image_dir}
    /\ mkdirs' = IF image_dir \in dirs THEN mkdirs ELSE Append(mkdirs, image_dir)

(* pptx_to_docx, lines 107-113 *)
PptxOpen ==
    /\ pc = "pptx_open"
    /\ ndocs' = ndocs + 1
    /\ doc' = <<>>
    /\ MakeDir(PptxDir)
    /\ image_count' = 0
    /\ i' = 0
    /\ pc' = "pptx_slides"
    /\ UNCHANGED <<input_path, output_path, source, j, files, disk, saved,
                   exit_code, arg, pre>>

PptxSlideBegin_count_per_slide ==
    /\ pc = "pptx_slides"
    /\ i < Len(source)
    /\ doc' = Append(doc, Heading(<<"Slide ", ToString(i + 1)>>))
    /\ image_count' = 0
    /\ j' = 0
    /\ pc' = "pptx_shapes"
    /\ UNCHANGED <<input_path, output_path, source, i, files, disk, dirs,
                   mkdirs, ndocs, saved, exit_code, arg, pre>>

(* lines 115-116: the next slide, its heading *)
PptxSlideBegin ==
    /\ pc = "pptx_slides"
    /\ i < Len(source)
    /\ doc' = Append(doc, Heading(<<"Slide ", ToString(i + 1)>>))
    /\ j' = 0
    /\ pc' = "pptx_shapes"
    /\ UNCHANGED <<input_path, output_path, source, image_count, i, files,
                   disk, dirs, mkdirs, ndocs, saved, exit_code, arg, pre>>

(* lines 117-118: process_shape on the next shape of the slide *)
PptxShape ==
    /\ pc = "pptx_shapes"
    /\ j < Len(source[i + 1])
    /\ LET shape == source[i + 1][j + 1]
           r == process_shape([doc |-> doc, files |-> files, disk |-> disk],
                              shape, i + 1, image_count, PptxDir)
       IN  /\ arg' = shape
           /\ pre' = [doc |-> doc, image_count |-> image_count,
                      files |-> files, disk |-> disk, slide_num |-> i + 1]
           /\ doc' = r.doc
           /\ files' = r.files
           /\ disk' = r.disk
           /\ image_count' = r.image_count
           /\ pc' = IF r.raised THEN "raised" ELSE pc
           /\ exit_code' = IF r.raised THEN 1 ELSE exit_code
    /\ j' = j + 1
    /\ UNCHANGED <<input_path, output_path, source, i, dirs, mkdirs, ndocs,
                   saved>>

PptxSlideEnd_and_save ==
    /\ pc = "pptx_shapes"
    /\ j = Len(source[i + 1])
    /\ doc' = add_page_break(doc)
    /\ saved' = Append(saved, [path |-> output_path, doc |-> doc'])
    /\ i' = i + 1
    /\ pc' = "pptx_slides"
    /\ UNCHANGED <<input_path, output_path, source, image_count, j, files,
                   disk, dirs, mkdirs, ndocs, exit_code, arg, pre>>

(* line 119: the slide's page break *)
PptxSlideEnd ==
    /\ pc = "pptx_shapes"
    /\ j = Len(source[i + 1])
    /\ doc' = add_page_break(doc)
    /\ i' = i + 1
    /\ pc' = "pptx_slides"
    /\ UNCHANGED <<input_path, output_path, source, image_count, j, files,
                   disk, dirs, mkdirs, ndocs, saved, exit_code, arg, pre>>

(* line 121-122: doc.save(docx_path) *)
PptxSave ==
    /\ pc = "pptx_slides"
    /\ i = Len(source)
    /\ saved' = Append(saved, [path |-> output_path, doc |-> doc])
    /\ pc' = "done"
    /\ exit_code' = 0
    /\ UNCHANGED <<input_path, output_path, source, doc, image_count, i, j,
                   files, disk, dirs, mkdirs, ndocs, arg, pre>>

(* pdf_to_docx, lines 125-129 *)
PdfOpen ==
    /\ pc = "pdf_open"
    /\ MakeDir(PdfDir)
    /\ ndocs' = ndocs + 1
    /\ doc' = <<>>
    /\ i' = 0
    /\ pc' = "pdf_pages"
    /\ UNCHANGED <<input_path, output_path, source, image_count, j, files,
                   disk, saved, exit_code, arg, pre>>

(* lines 131-140: the next page, its heading and one paragraph per line *)
PdfPage ==
    /\ pc = "pdf_pages"
    /\ i < Len(source)
    /\ LET lines == Split(source[i + 1].text) IN
       doc' = Append(doc, Heading(<<"Page ", ToString(i + 1)>>))
              \o [k \in 1..Len(lines) |-> Paragraph(lines[k])]
    /\ j' = 0
    /\ pc' = "pdf_images"
    /\ UNCHANGED <<input_path, output_path, source, image_count, i, files,
                   disk, dirs, mkdirs, ndocs, saved, exit_code, arg, pre>>

(* lines 141-150: the next image of the page; pix.save raises when the     *)
(* disk is full                                                            *)
PdfImage ==
    /\ pc = "pdf_images"
    /\ j < Len(source[i + 1].images)
    /\ LET img_path == PdfImageName(PdfDir, i + 1, j + 1) IN
       IF disk = 0
       THEN /\ pc' = "raised"
            /\ exit_code' = 1
            /\ UNCHANGED <<doc, files, disk>>
       ELSE /\ files' = Append(files, [path |-> img_path,
                                       key |-> <<i + 1, j + 1>>])
            /\ disk' = disk - 1
            /\ doc' = Append(doc, Picture(img_path, PdfWidthInches * PxPerInch))
            /\ UNCHANGED <<pc, exit_code>>
    /\ j' = j + 1
    /\ UNCHANGED <<input_path, output_path, source, image_count, i, dirs,
                   mkdirs, ndocs, saved, arg, pre>>

(* line 151: the page's page break *)
PdfPageEnd ==
    /\ pc = "pdf_images"
    /\ j = Len(source[i + 1].images)
    /\ doc' = add_page_break(doc)
    /\ i' = i + 1
    /\ pc' = "pdf_pages"
    /\ UNCHANGED <<input_path, output_path, source, image_count, j, files,
                   disk, dirs, mkdirs, ndocs, saved, exit_code, arg, pre>>

(* lines 153-154: doc.save(docx_path) *)
PdfSave ==
    /\ pc = "pdf_pages"
    /\ i = Len(source)
    /\ saved' = Append(saved, [path |-> output_path, doc |-> doc])
    /\ pc' = "done"
    /\ exit_code' = 0
    /\ UNCHANGED <<input_path, output_path, source, doc, image_count, i, j,
                   files, disk, dirs, mkdirs, ndocs, arg, pre>>

Next ==
    \/ Dispatch
    \/ PptxOpen
    \/ PptxSlideBegin
    \/ PptxShape
    \/ PptxSlideEnd
    \/ PptxSave
    \/ PdfOpen
    \/ PdfPage
    \/ PdfImage
    \/ PdfPageEnd
    \/ PdfSave

Spec == Init /\ [][Next]_vars

-----------------------------------------------------------------------------
(* process_shape as a function: one call, on any shape of ShapeDomain, at  *)
(* any slide number, image count and room on the disk                      *)

ShapeDomain == AttrLeaves \cup TextLeaves \cup PictureLeaves \cup Groups

Envs == [slide_num : {1, MaxSlides}, count : {0, 1}, room : 0..MaxDisk]

(* the text bodies are tried at the first slide only, with a full disk *)
CallInputs ==
    (TextLeaves \X {e \in Envs : e.slide_num = 1 /\ e.room = 0})
    \cup ((AttrLeaves \cup PictureLeaves \cup Groups) \X Envs)

InitShape ==
    /\ pc = "call"
    /\ input_path = <<"a">> \o DotPptx
    /\ output_path = DefaultOutput(input_path)
    /\ source = <<>>
    /\ \E in \in CallInputs :
          /\ arg = in[1]
          /\ doc = <<Heading(<<"Slide ", ToString(in[2].slide_num)>>)>>
          /\ image_count = in[2].count
          /\ i = in[2].slide_num - 1
          /\ disk = in[2].room
          /\ pre = [doc |-> doc, image_count |-> in[2].count, files |-> <<>>,
                    disk |-> in[2].room, slide_num |-> in[2].slide_num]
    /\ j = 0
    /\ files = <<>>
    /\ dirs = {PptxDir}
    /\ mkdirs = <<PptxDir>>
    /\ ndocs = 1
    /\ saved = <<>>
    /\ exit_code = -1

CallProcessShape ==
    /\ pc = "call"
    /\ LET r == process_shape([doc |-> doc, files |-> files, disk |-> disk],
                              arg, pre.slide_num, image_count, PptxDir)
       IN  /\ doc' = r.doc
           /\ files' = r.files
           /\ disk' = r.disk
           /\ image_count' = r.image_count
           /\ pc' = IF r.raised THEN "raised" ELSE "returned"
           /\ exit_code' = IF r.raised THEN 1 ELSE exit_code
    /\ UNCHANGED <<input_path, output_path, source, i, j, dirs, mkdirs, ndocs,
                   saved, arg, pre>>

NextShape == CallProcessShape

SpecShape == InitShape /\ [][NextShape]_vars

-----------------------------------------------------------------------------
(* Properties of one call of process_shape (SpecShape) *)

Called == pc \in {"returned", "raised"}

(* what the call left: the document, the files, the disk, the counter, and *)
(* whether it raised                                                       *)
Outcome ==
    [doc |-> doc, files |-> files, disk |-> disk,
     image_count |-> image_count, raised |-> (pc = "raised")]

PreEnv == [doc |-> pre.doc, files |-> pre.files, disk |-> pre.disk]

Appended == SubSeq(doc, Len(pre.doc) + 1, Len(doc))

Visible(shape) == shape.visible # "false"

RECURSIVE Leaves(_)
(* the leaf shapes a group contains, at any depth, in source order *)
Leaves(shape) ==
    IF IsGroup(shape)
    THEN Flatten([k \in 1..Len(shape.shapes) |-> Leaves(shape.shapes[k])])
    ELSE <<shape>>

RECURSIVE ShownLeaves(_)
(* the leaf shapes of a group that are inside no explicitly invisible      *)
(* group below it                                                          *)
ShownLeaves(shape) ==
    IF ~IsGroup(shape) THEN <<shape>>
    ELSE Flatten([k \in 1..Len(shape.shapes) |->
                    LET sub == shape.shapes[k] IN
                    IF IsGroup(sub) /\ ~Visible(sub) THEN <<>>
                    ELSE ShownLeaves(sub)])

AsDirectChildren(shapes) ==
    process_shapes(PreEnv, shapes, pre.slide_num, pre.image_count, PptxDir)

(* C2, as claimed: process_shape on a visible group leaves what processing *)
(* all its leaf shapes one after another as direct children of the slide   *)
(* leaves: the same blocks in the same order, the same image counter.      *)
C2_AllLeaves ==
    (Called /\ IsGroup(arg) /\ Visible(arg))
        => Outcome = AsDirectChildren(Leaves(arg))

(* C2, amended: process_shape on a visible group leaves what processing,   *)
(* one after another as direct children of the slide, its leaf shapes that *)
(* are inside no explicitly invisible nested group leaves: the same blocks *)
(* in the same order, the same files, the same image counter, the same     *)
(* exception if any.                                                       *)
C2_ShownLeaves ==
    (Called /\ IsGroup(arg) /\ Visible(arg))
        => Outcome = AsDirectChildren(ShownLeaves(arg))

(* a visible group holding a leaf and a visible nested group with a        *)
(* picture, both processed                                                 *)
C2_Witness ==
    /\ pc = "returned" /\ IsGroup(arg) /\ Visible(arg)
    /\ Len(arg.shapes) = 2
    /\ ~IsGroup(arg.shapes[1]) /\ arg.shapes[1].has_text_frame
    /\ IsGroup(arg.shapes[2]) /\ Visible(arg.shapes[2])
    /\ Len(arg.shapes[2].shapes) = 1 /\ IsPicture(arg.shapes[2].shapes[1])
    /\ Len(Appended) = 2 /\ image_count = pre.image_count + 1

(* C4: a visible non-group shape with a text frame appends one paragraph   *)
(* per source paragraph, in order, each with the runs of its source        *)
(* paragraph in order and with the same text; a paragraph without runs     *)
(* gives an empty paragraph.                                               *)
C4_ParagraphsAndRuns ==
    (Called /\ Visible(arg) /\ ~IsGroup(arg) /\ arg.has_text_frame)
        => /\ pc = "returned"
           /\ IsPrefix(pre.doc, doc)
           /\ Len(Appended) = Len(arg.paragraphs)
           /\ \A p \in 1..Len(arg.paragraphs) :
                 /\ Appended[p].kind = "paragraph"
                 /\ Len(Appended[p].runs) = Len(arg.paragraphs[p].runs)
                 /\ \A r \in 1..Len(arg.paragraphs[p].runs) :
                       Appended[p].runs[r].text = arg.paragraphs[p].runs[r].text

(* two paragraphs, the first without runs, the second with two different runs *)
C4_Witness ==
    /\ pc = "returned" /\ Visible(arg) /\ ~IsGroup(arg) /\ arg.has_text_frame
    /\ Len(arg.paragraphs) = 2
    /\ arg.paragraphs[1].runs = <<>>
    /\ arg.paragraphs[2].runs = <<RunB, RunA>>
    /\ Len(Appended) = 2

TextParagraphs(shape) == add_text_to_docx(<<>>, extract_text_runs(shape))

(* C7, as claimed, for the shapes that are no picture, table or chart: a   *)
(* visible non-group shape whose name contains "SmartArt" appends          *)
(* "[SmartArt Placeholder]", followed by its text paragraphs when it has a *)
(* text frame.                                                             *)
C7_PlaceholderThenText ==
    (Called /\ Visible(arg) /\ ~IsGroup(arg) /\ IsSmartArt(arg)
            /\ ~IsPicture(arg) /\ ~arg.has_table /\ ~IsChart(arg))
        => /\ pc = "returned"
           /\ Appended = <<SmartArtPlaceholder>>
                         \o (IF arg.has_text_frame THEN TextParagraphs(arg)
                             ELSE <<>>)

(* C8, as claimed: a visible shape of type 3 whose name contains "Chart"   *)
(* appends exactly the chart placeholder, writes no file and keeps the     *)
(* counter, whatever its other attributes.                                 *)
C8_AnyChart ==
    (Called /\ Visible(arg) /\ arg.shape_type = CHART
            /\ Contains(arg.name, <<"C", "h", "a", "r", "t">>))
        => /\ pc = "returned"
           /\ doc = Append(pre.doc, ChartPlaceholder)
           /\ files = pre.files
           /\ image_count = pre.image_count

(* C8, amended: a visible shape of type 3 whose name contains "Chart" and  *)
(* that has neither a text frame nor a table appends exactly the chart     *)
(* placeholder, writes no file and keeps the counter.                      *)
C8_ChartWithoutTextOrTable ==
    (Called /\ Visible(arg) /\ arg.shape_type = CHART
            /\ Contains(arg.name, <<"C", "h", "a", "r", "t">>)
            /\ ~arg.has_text_frame /\ ~arg.has_table)
        => /\ pc = "returned"
           /\ doc = Append(pre.doc, ChartPlaceholder)
           /\ files = pre.files
           /\ image_count = pre.image_count

C8_Witness ==
    /\ pc = "returned" /\ arg.visible = "true" /\ arg.shape_type = CHART
    /\ arg.name = ChartName /\ ~arg.has_text_frame /\ ~arg.has_table
    /\ arg.has_image /\ pre.image_count = 1
    /\ Appended = <<ChartPlaceholder>>

(* C9: a shape whose visibility flag is explicitly false contributes       *)
(* nothing: no block, no file, the same counter, whatever it contains.     *)
C9_InvisibleSkipped ==
    (Called /\ arg.visible = "false")
        => /\ pc = "returned"
           /\ doc = pre.doc
           /\ files = pre.files
           /\ disk = pre.disk
           /\ image_count = pre.image_count

(* an invisible group holding a picture and a nested group with a picture, *)
(* on a disk with room for both                                            *)
C9_Witness ==
    /\ pc = "returned" /\ arg.visible = "false" /\ IsGroup(arg)
    /\ Len(arg.shapes) = 2
    /\ IsPicture(arg.shapes[1]) /\ Visible(arg.shapes[1])
    /\ IsGroup(arg.shapes[2]) /\ Visible(arg.shapes[2])
    /\ Len(arg.shapes[2].shapes) = 1 /\ IsPicture(arg.shapes[2].shapes[1])
    /\ pre.disk >= 2

-----------------------------------------------------------------------------
(* Properties of a conversion run (Spec) *)

NumberOf(kind, d) == Cardinality({k \in 1..Len(d) : d[k].kind = kind})

SameLetter(a, b) ==
    a = b \/ \E u \in 1..26 : {a, b} = {UpperCase[u], LowerCase[u]}

EqualIgnoringCase(s, t) ==
    Len(s) = Len(t) /\ \A k \in 1..Len(s) : SameLetter(s[k], t[k])

IsPptxPath == EqualIgnoringCase(SplitExt(input_path).ext, DotPptx)

IsPdfPath == EqualIgnoringCase(SplitExt(input_path).ext, DotPdf)

PptxStates == {"pptx_open", "pptx_slides", "pptx_shapes"}

PdfStates == {"pdf_open", "pdf_pages", "pdf_images"}

(* C1: when a conversion has finished, the document holds as many page     *)
(* breaks as the source has slides or pages.                               *)
C1_PageBreakPerSlide ==
    pc = "done" => NumberOf("page_break", doc) = Len(source)

(* a finished PPTX conversion of two slides, one of them holding a group *)
C1_Witness ==
    /\ pc = "done" /\ IsPptxPath /\ Len(source) = 2
    /\ \E k \in 1..Len(source[2]) : IsGroup(source[2][k])
    /\ source[1] # <<>>

(* C3: no two image files written in a run have the same path, nor the     *)
(* same (slide, counter) or (page, index) pair.                            *)
C3_UniqueImageFiles ==
    \A a, b \in 1..Len(files) :
        a # b => files[a].path # files[b].path /\ files[a].key # files[b].key

(* two pictures of one slide written, the second from inside a group *)
C3_Witness ==
    /\ IsPptxPath /\ Len(files) = 2
    /\ files[1].key[1] = files[2].key[1]
    /\ IsGroup(arg) /\ pre.files # <<>> /\ files # pre.files

(* C5: a path whose extension is neither .pptx nor .pdf, compared without  *)
(* case, ends in exit status 1 with no document created, no directory      *)
(* created and nothing saved; a path whose extension is one of them in any *)
(* case goes to the matching pipeline and never to the error exit.         *)
C5_Dispatch ==
    /\ (~IsPptxPath /\ ~IsPdfPath)
          => /\ pc \in {"convert", "exit"}
             /\ pc = "exit" => exit_code = 1
             /\ ndocs = 0 /\ mkdirs = <<>> /\ saved = <<>> /\ files = <<>>
    /\ IsPptxPath => pc \notin {"exit"} \cup PdfStates
    /\ IsPdfPath => pc \notin {"exit"} \cup PptxStates

C5_Witness ==
    /\ pc = "exit" /\ exit_code = 1
    /\ input_path = <<"a">> \o DotPptx \o <<".", "b", "a", "k">>
    /\ dirs = {}

C6_State ==
    /\ pc \in {"convert", "pptx_open", "pdf_open", "exit"} => doc = <<>>
    /\ Len(saved) <= 1
    /\ saved # <<>> <=> pc = "done"
    /\ pc = "done" => /\ saved[1].doc = doc
                      /\ i = Len(source)
                      /\ Len(source) > 0 => doc[Len(doc)] = PageBreak
    /\ pc = "raised" => saved = <<>>

C6_Step ==
    /\ pc \in {"pptx_open", "pdf_open"} => doc' = <<>>
    /\ IsPrefix(doc, doc')
    /\ IsPrefix(saved, saved')
    /\ saved # <<>> => doc' = doc

(* C6: the document starts empty and only grows by appends; save is called *)
(* once, after the page break of the last slide or page, on the document   *)
(* as it then is; after an uncaught error nothing is ever saved.           *)
C6_AppendOnlySavedOnce == [](C6_State) /\ [][C6_Step]_vars

(* a finished conversion of two slides with an extracted picture, saved once *)
C6_Witness ==
    /\ pc = "done" /\ Len(saved) = 1 /\ saved[1].doc = doc
    /\ Len(source) = 2 /\ files # <<>> /\ IsPptxPath

IsPptxRun == IsPptxPath /\ pc \in {"pptx_slides", "pptx_shapes", "done", "raised"}

C10_State ==
    /\ pc = "pptx_slides" /\ i = 0 => image_count = 0
    /\ IsPptxRun => image_count = NumberOf("picture", doc)
    /\ IsPptxRun /\ pc # "raised" => image_count = Len(files)

C10_Step ==
    /\ image_count' >= image_count
    /\ IsPptxRun /\ ~(pc = "pptx_shapes" /\ j < Len(source[i + 1]))
          => image_count' = image_count
    /\ IsPptxRun /\ pc = "pptx_shapes" /\ j < Len(source[i + 1])
          => /\ image_count' - image_count
                   = NumberOf("picture", doc') - NumberOf("picture", doc)
             /\ ~IsGroup(arg') /\ ~(IsPicture(arg') /\ ~arg'.has_text_frame)
                   => image_count' = image_count

(* C10: in the PPTX pipeline the image counter is 0 before the first       *)
(* slide, is the number of pictures extracted so far, grows by one per     *)
(* picture extracted at any depth, is kept by every other shape and by the *)
(* slide boundaries, and never decreases.                                  *)
C10_CounterCountsPictures == [](C10_State) /\ [][C10_Step]_vars

(* a finished conversion with a picture extracted on each of two slides *)
C10_Witness ==
    /\ pc = "done" /\ IsPptxPath /\ Len(source) = 2
    /\ image_count = 2 /\ Len(files) = 2
    /\ files[1].key = <<1, 0>> /\ files[2].key = <<2, 1>>

====
